---- MODULE Spec2Model ----
(***************************************************************************)
(* Monte Carlo Tree Search engine of mcts_modified.py.  The file holds two *)
(* engines: the iteration-budget engine with the heuristic rollout (lines  *)
(* 1-180) and the time-budget engine with the random rollout (lines        *)
(* 183-322).  traverse_nodes and backpropagate are the same in both.       *)
(*                                                                         *)
(* The tree is an arena: a node is its index in the sequence tree, the     *)
(* root is node 1, and None is 0.  A dict is the sequence of its           *)
(* <<key, value>> pairs in insertion order (Python iterates a dict in      *)
(* insertion order).                                                       *)
(*                                                                         *)
(* budget, state, identity_of_bot, tree, step, sampled_game, node, leaf,   *)
(* me, won and action are the variables of think and rollout.  The others  *)
(* record what an iteration did: expanded is the node expand_leaf made,    *)
(* expand_calls and rollout_calls are the <<state, action>> pairs handed   *)
(* to next_state, rollout_from is the argument of rollout, bp_count counts *)
(* the calls think made to backpropagate and started[n] counts those that  *)
(* started at node n.  score_args and score are the arguments and the      *)
(* result of outcome in SpecOutcome.                                       *)
(***************************************************************************)
EXTENDS Integers, Sequences, FiniteSets, TLC

VARIABLES budget, state, identity_of_bot, tree, step, pc, sampled_game,
          node, leaf, expanded, me, won, expand_calls, rollout_calls,
          rollout_from, bp_count, started, action, score_args, score

vars == <<budget, state, identity_of_bot, tree, step, pc, sampled_game,
          node, leaf, expanded, me, won, expand_calls, rollout_calls,
          rollout_from, bp_count, started, action, score_args, score>>

\* ------------------------------------------------------------------ bounds
\* Number of cells of the board of the game the engine is run on.
NumCells == 4
\* Number of iterations of the iteration-budget engine, and the largest
\* number of iterations the deadline of the time-budget engine lets through.
MaxIter == 5

None == 0

\* ------------------------------------------------------------- sequences
Range(s) == {s[i] : i \in 1..Len(s)}

\* list.remove(x): drops the first occurrence of x.
RemoveFirst(s, x) ==
    LET i == CHOOSE j \in 1..Len(s) :
                 s[j] = x /\ \A k \in 1..(j - 1) : s[k] # x
    IN  SubSeq(s, 1, i - 1) \o SubSeq(s, i + 1, Len(s))

\* d[k] = v on a dict: an existing key keeps its place, a new key goes last.
DictSet(d, k, v) ==
    IF \E i \in 1..Len(d) : d[i][1] = k
    THEN [i \in 1..Len(d) |-> IF d[i][1] = k THEN <<k, v>> ELSE d[i]]
    ELSE Append(d, <<k, v>>)

\* d[k] on a dict that holds k.
DictGet(d, k) == d[CHOOSE i \in 1..Len(d) : d[i][1] = k][2]

Keys(d) == {d[i][1] : i \in 1..Len(d)}

\* ------------------------------------------------------------------ game
\* The game the engine is handed (board).  Two players, 1 and 2, claim the
\* cells 1..NumCells in turn; the last cell can be claimed only once some
\* other cell is owned, and claiming it ends the game; while cell 1 is owned
\* and cell 2 is not, cell 2 is the only cell that can be claimed.  The
\* player to move at the end has lost.
Cells == 1..NumCells

EmptyBoard == [owner |-> [c \in Cells |-> 0], player |-> 1]

is_ended(s) == s.owner[NumCells] # 0

current_player(s) == s.player

IsLegal(s, c) ==
    /\ ~is_ended(s)
    /\ s.owner[c] = 0
    /\ (c < NumCells \/ \E d \in Cells : s.owner[d] # 0)
    /\ (s.owner[1] # 0 /\ s.owner[2] = 0) => (c = 2)

RECURSIVE LegalFrom(_, _)
LegalFrom(s, c) ==
    IF c > NumCells THEN <<>>
    ELSE (IF IsLegal(s, c) THEN <<c>> ELSE <<>>) \o LegalFrom(s, c + 1)

\* The legal actions in increasing order; empty iff the state is terminal.
legal_actions(s) == LegalFrom(s, 1)

\* Total: an action that is not legal in s is applied all the same.
next_state(s, a) ==
    [owner |-> [s.owner EXCEPT ![a] = s.player], player |-> 3 - s.player]

owned_boxes(s) == s.owner

\* None as the value of points_values, whose other values are the pairs
\* <<points of 1, points of 2>>.
NoPoints == <<>>

points_values(s) == NoPoints

RECURSIVE ReachableFrom(_)
ReachableFrom(s) ==
    {s} \cup UNION {ReachableFrom(next_state(s, a)) :
                        a \in Range(legal_actions(s))}

\* The states a game can be in when the engine is asked for a move.
GameStates == ReachableFrom(EmptyBoard)

\* ------------------------------------------------------------------ node
MCTSNode(parent, parent_action, action_list) ==
    [parent |-> parent, parent_action |-> parent_action,
     child_nodes |-> <<>>, untried_actions |-> action_list,
     wins |-> 0, visits |-> 0]

\* ------------------------------------------------------------- selection
explore_faction == 2

\* Fixed point arithmetic for the UCT score, in units of 1/Scale.  LnTable
\* holds floor(ln(t) * 10 * Scale).  For 0 <= w <= n <= t <= 12 the scores
\* computed here are ordered, and are zero, exactly as the floating point
\* scores of the source are.
Scale == 10000

LnTable == <<0, 69314, 109861, 138629, 160943, 179175, 194591, 207944,
             219722, 230258, 239789, 248490>>

RECURSIVE SqrtSearch(_, _, _)
SqrtSearch(x, lo, hi) ==
    IF hi - lo <= 1 THEN lo
    ELSE LET mid == (lo + hi) \div 2
         IN  IF mid * mid <= x THEN SqrtSearch(x, mid, hi)
                               ELSE SqrtSearch(x, lo, mid)

\* floor(sqrt(x))
isqrt(x) == SqrtSearch(x, 0, 46340)

\* Raised is the value of a computation that raised an exception.
Raised == -1

\* (w / n) + (c * sqrt(log(t) / n)); ZeroDivisionError when n = 0 and
\* ValueError (math domain error) when t = 0.
explore(w, n, t, c) ==
    IF n = 0 \/ t = 0 THEN Raised
    ELSE (w * Scale) \div n
         + (c * isqrt((LnTable[t] * 4 * (Scale \div 10)) \div n)) \div 2

RECURSIVE ScanChildren(_, _, _, _, _)
\* The for loop of traverse_nodes from the i-th child on: <<bestest, new_node>>.
ScanChildren(t, n, i, bestest, new_node) ==
    IF i > Len(t[n].child_nodes) THEN <<bestest, new_node>>
    ELSE LET ch == t[n].child_nodes[i][2]
             v  == explore(t[ch].wins, t[ch].visits, t[n].visits,
                           explore_faction)
         IN  IF v = Raised THEN <<Raised, None>>
             ELSE IF v > bestest
                  THEN ScanChildren(t, n, i + 1, v, ch)
                  ELSE ScanChildren(t, n, i + 1, bestest, new_node)

RECURSIVE traverse_nodes_eager(_, _, _)
\* traverse_nodes without the test of untried_actions.
traverse_nodes_eager(t, n, st) ==
    LET r == ScanChildren(t, n, 1, 0, n)
    IN  IF r[1] = Raised THEN None
        ELSE IF r[1] # 0 THEN traverse_nodes_eager(t, r[2], st)
        ELSE r[2]

RECURSIVE traverse_nodes(_, _, _)
\* The node the descent from n stops at (None when the scoring raised).  The
\* state st is handed down as it is.
traverse_nodes(t, n, st) ==
    IF t[n].untried_actions = <<>>
    THEN LET r == ScanChildren(t, n, 1, 0, n)
         IN  IF r[1] = Raised THEN None
             ELSE IF r[1] # 0 THEN traverse_nodes(t, r[2], st)
             ELSE r[2]
    ELSE n

\* ------------------------------------------------------------- expansion
\* expand_leaf that leaves the action among the untried actions.
expand_leaf_keeps(t, n, st, a) ==
    LET st2     == next_state(st, a)
        actions == legal_actions(st2)
        id      == Len(t) + 1
        t2      == Append(t, MCTSNode(n, a, actions))
        t3      == [t2 EXCEPT ![n].child_nodes = DictSet(@, a, id)]
    IN  [tree |-> t3, node |-> DictGet(t3[n].child_nodes, a), state |-> st2,
         calls |-> <<<<st, a>>>>]

\* expand_leaf that takes the legal actions of the state before the action.
expand_leaf_stale(t, n, st, a) ==
    LET st2     == next_state(st, a)
        actions == legal_actions(st)
        id      == Len(t) + 1
        t2      == Append(t, MCTSNode(n, a, actions))
        t3      == [t2 EXCEPT ![n].child_nodes = DictSet(@, a, id)]
        t4      == [t3 EXCEPT ![n].untried_actions = RemoveFirst(@, a)]
    IN  [tree |-> t4, node |-> DictGet(t4[n].child_nodes, a), state |-> st2,
         calls |-> <<<<st, a>>>>]

\* expand_leaf of the iteration-budget engine, for the untried action a that
\* choice picked: the tree, the new node and the state after the action.
expand_leaf(t, n, st, a) ==
    LET st2     == next_state(st, a)
        actions == legal_actions(st2)
        id      == Len(t) + 1
        t2      == Append(t, MCTSNode(n, a, actions))
        t3      == [t2 EXCEPT ![n].child_nodes = DictSet(@, a, id)]
        t4      == [t3 EXCEPT ![n].untried_actions = RemoveFirst(@, a)]
    IN  [tree |-> t4, node |-> DictGet(t4[n].child_nodes, a), state |-> st2,
         calls |-> <<<<st, a>>>>]

\* expand_leaf of the time-budget engine: nothing is done on an ended state.
expand_leaf_time(t, n, st, a) ==
    IF ~is_ended(st)
    THEN expand_leaf(t, n, st, a)
    ELSE [tree |-> t, node |-> n, state |-> st, calls |-> <<>>]

\* ------------------------------------------------------------ simulation
\* bool(board.is_ended): the attribute is a bound method, never called in
\* the loop condition of the heuristic rollout, and a method object is true.
BoundMethodTruthy == TRUE

\* outcome that scores for identity 1 whoever me is.
outcome_red(m, owned, game_points) ==
    LET red_score  == IF game_points # NoPoints THEN game_points[1] * 9
                      ELSE Cardinality({c \in DOMAIN owned : owned[c] = 1})
        blue_score == IF game_points # NoPoints THEN game_points[2] * 9
                      ELSE Cardinality({c \in DOMAIN owned : owned[c] = 2})
    IN  red_score - blue_score

\* outcome of the heuristic rollout: the score of m minus the other's.
outcome(m, owned, game_points) ==
    LET red_score  == IF game_points # NoPoints THEN game_points[1] * 9
                      ELSE Cardinality({c \in DOMAIN owned : owned[c] = 1})
        blue_score == IF game_points # NoPoints THEN game_points[2] * 9
                      ELSE Cardinality({c \in DOMAIN owned : owned[c] = 2})
    IN  IF m = 1 THEN red_score - blue_score ELSE blue_score - red_score

\* One pass of the body of the while loop of the heuristic rollout: the
\* searching side plays the move with the best sampled score (any legal move
\* can come out best), the other side plays a random legal move.
HeuristicStep(s, m) ==
    IF current_player(s) = m
    THEN {next_state(s, best_move) : best_move \in Range(legal_actions(s))}
    ELSE {next_state(s, a) : a \in Range(legal_actions(s))}

RECURSIVE HeuristicLoop(_, _)
HeuristicLoop(s, m) ==
    IF ~BoundMethodTruthy
    THEN UNION {HeuristicLoop(s2, m) : s2 \in HeuristicStep(s, m)}
    ELSE {s}

\* rollout of the iteration-budget engine: the runs it can make from s, each
\* the sequence of <<state, action>> it handed to next_state and its result.
rollout(s) ==
    {[calls |-> <<>>, state |-> r] : r \in HeuristicLoop(s, current_player(s))}

\* rollout that makes one move at most (if in place of while).
rollout_time_once(s) ==
    IF ~is_ended(s)
    THEN {[calls |-> <<<<s, a>>>>, state |-> next_state(s, a)] :
             a \in Range(legal_actions(s))}
    ELSE {[calls |-> <<>>, state |-> s]}

RECURSIVE rollout_time(_)
\* rollout of the time-budget engine: random legal moves until is_ended.
rollout_time(s) ==
    IF ~is_ended(s)
    THEN UNION {{[calls |-> <<<<s, a>>>> \o r.calls, state |-> r.state] :
                    r \in rollout_time(next_state(s, a))} :
                a \in Range(legal_actions(s))}
    ELSE {[calls |-> <<>>, state |-> s]}

\* ------------------------------------------------------- backpropagation
\* backpropagate that does not go on to the parent.
backpropagate_stops(t, n, w) ==
    LET t2 == IF w THEN [t EXCEPT ![n].wins = @ + 1] ELSE t
    IN  [t2 EXCEPT ![n].visits = @ + 1]

RECURSIVE backpropagate_always_wins(_, _, _)
\* backpropagate that counts a win whatever the outcome.
backpropagate_always_wins(t, n, w) ==
    LET t2 == [t EXCEPT ![n].wins = @ + 1]
        t3 == [t2 EXCEPT ![n].visits = @ + 1]
    IN  IF t3[n].parent # None
        THEN backpropagate_always_wins(t3, t3[n].parent, w)
        ELSE t3

RECURSIVE backpropagate_wins_local(_, _, _)
\* backpropagate that counts the win on the starting node only.
backpropagate_wins_local(t, n, w) ==
    LET t2 == IF w THEN [t EXCEPT ![n].wins = @ + 1] ELSE t
        t3 == [t2 EXCEPT ![n].visits = @ + 1]
    IN  IF t3[n].parent # None
        THEN backpropagate_wins_local(t3, t3[n].parent, FALSE)
        ELSE t3

RECURSIVE backpropagate(_, _, _)
backpropagate(t, n, w) ==
    LET t2 == IF w THEN [t EXCEPT ![n].wins = @ + 1] ELSE t
        t3 == [t2 EXCEPT ![n].visits = @ + 1]
    IN  IF t3[n].parent # None THEN backpropagate(t3, t3[n].parent, w)
        ELSE t3

\* ---------------------------------------------------------------- driver
num_nodes == MaxIter

\* value >= best on floats, for quotients of small integers a / b >= c / d.
RatioGeq(a, b, c, d) == a * d >= c * b

RECURSIVE BestAction_strict(_, _, _, _, _)
\* The final loop with value > best in place of value >= best.
BestAction_strict(t, i, bn, bd, act) ==
    IF i > Len(t[1].child_nodes) THEN act
    ELSE LET ch == t[1].child_nodes[i][2]
         IN  IF t[ch].visits = 0 THEN Raised
             ELSE IF ~RatioGeq(bn, bd, t[ch].wins, t[ch].visits)
                  THEN BestAction_strict(t, i + 1, t[ch].wins, t[ch].visits,
                                         t[ch].parent_action)
                  ELSE BestAction_strict(t, i + 1, bn, bd, act)

RECURSIVE BestAction(_, _, _, _, _)
\* The final loop of think over the root's children from the i-th on, with
\* best = bn / bd: the action, or Raised when a child has no visits.
BestAction(t, i, bn, bd, act) ==
    IF i > Len(t[1].child_nodes) THEN act
    ELSE LET ch == t[1].child_nodes[i][2]
         IN  IF t[ch].visits = 0 THEN Raised
             ELSE IF RatioGeq(t[ch].wins, t[ch].visits, bn, bd)
                  THEN BestAction(t, i + 1, t[ch].wins, t[ch].visits,
                                  t[ch].parent_action)
                  ELSE BestAction(t, i + 1, bn, bd, act)

Init ==
    /\ budget \in {"count", "time"}
    /\ state \in GameStates
    /\ identity_of_bot = current_player(state)
    /\ tree = <<MCTSNode(None, None, legal_actions(state))>>
    /\ step = 0
    /\ pc = "loop"
    /\ sampled_game = None
    /\ node = None
    /\ leaf = None
    /\ expanded = None
    /\ me = None
    /\ won = FALSE
    /\ expand_calls = <<>>
    /\ rollout_calls = <<>>
    /\ rollout_from = None
    /\ bp_count = 0
    /\ started = <<[visits |-> 0, wins |-> 0]>>
    /\ action = None
    /\ score_args = None
    /\ score = None

\* The loop test with one iteration too many.
MoreBudget_one_more ==
    IF budget = "count" THEN step <= num_nodes ELSE step < MaxIter

\* The loop test lets one more iteration start.
MoreBudget ==
    IF budget = "count" THEN step < num_nodes ELSE step < MaxIter

\* The loop test ends the search.  The deadline of the time-budget engine
\* (time_elapsed <= 1) can pass before any of its loop tests.
BudgetOver ==
    IF budget = "count" THEN step >= num_nodes ELSE TRUE

\* Start of an iteration and Selection.
Select ==
    /\ pc = "loop"
    /\ MoreBudget
    /\ sampled_game' = state
    /\ node' = 1
    /\ leaf' = traverse_nodes(tree, 1, state)
    /\ pc' = IF leaf' = None THEN "raised" ELSE "expand"
    /\ expanded' = None
    /\ expand_calls' = <<>>
    /\ rollout_calls' = <<>>
    /\ rollout_from' = None
    /\ UNCHANGED <<budget, state, identity_of_bot, tree, step, me, won,
                   bp_count, started, action, score_args, score>>

\* if leaf.untried_actions: node, sampled_game = expand_leaf(...)
Expand ==
    /\ pc = "expand"
    /\ IF tree[leaf].untried_actions # <<>>
       THEN \E a \in Range(tree[leaf].untried_actions) :
              LET r == IF budget = "count"
                       THEN expand_leaf(tree, leaf, sampled_game, a)
                       ELSE expand_leaf_time(tree, leaf, sampled_game, a)
              IN  /\ tree' = r.tree
                  /\ node' = r.node
                  /\ sampled_game' = r.state
                  /\ expand_calls' = r.calls
                  /\ expanded' = IF Len(r.tree) > Len(tree) THEN r.node
                                 ELSE None
                  /\ started' = IF Len(r.tree) > Len(tree)
                                THEN Append(started,
                                            [visits |-> 0, wins |-> 0])
                                ELSE started
       ELSE UNCHANGED <<tree, node, sampled_game, expand_calls, expanded,
                        started>>
    /\ pc' = "rollout"
    /\ UNCHANGED <<budget, state, identity_of_bot, step, leaf, me, won,
                   rollout_calls, rollout_from, bp_count, action,
                   score_args, score>>

\* sampled_game = rollout(board, sampled_game), then the won flag.
Rollout ==
    /\ pc = "rollout"
    /\ \E r \in (IF budget = "count" THEN rollout(sampled_game)
                 ELSE rollout_time(sampled_game)) :
          /\ sampled_game' = r.state
          /\ rollout_calls' = r.calls
          /\ won' = (current_player(r.state) # identity_of_bot)
    /\ rollout_from' = sampled_game
    /\ me' = IF budget = "count" THEN current_player(sampled_game) ELSE me
    /\ pc' = "backprop"
    /\ UNCHANGED <<budget, state, identity_of_bot, tree, step, node, leaf,
                   expanded, expand_calls, bp_count, started, action,
                   score_args, score>>

\* The end of the iteration with backpropagate(leaf, won).
Backprop_from_leaf ==
    /\ pc = "backprop"
    /\ tree' = backpropagate(tree, leaf, won)
    /\ bp_count' = bp_count + 1
    /\ started' = [started EXCEPT
                      ![leaf].visits = @ + 1,
                      ![leaf].wins = @ + IF won THEN 1 ELSE 0]
    /\ step' = step + 1
    /\ pc' = "loop"
    /\ UNCHANGED <<budget, state, identity_of_bot, sampled_game, node, leaf,
                   expanded, me, won, expand_calls, rollout_calls,
                   rollout_from, action, score_args, score>>

\* backpropagate(node, won) and the end of the iteration.
Backprop ==
    /\ pc = "backprop"
    /\ tree' = backpropagate(tree, node, won)
    /\ bp_count' = bp_count + 1
    /\ started' = [started EXCEPT
                      ![node].visits = @ + 1,
                      ![node].wins = @ + IF won THEN 1 ELSE 0]
    /\ step' = step + 1
    /\ pc' = "loop"
    /\ UNCHANGED <<budget, state, identity_of_bot, sampled_game, node, leaf,
                   expanded, me, won, expand_calls, rollout_calls,
                   rollout_from, action, score_args, score>>

\* The choice of the action after the loop.
Decide ==
    /\ pc = "loop"
    /\ BudgetOver
    /\ LET a == BestAction(tree, 1, 0, 1, None)
       IN  /\ action' = IF a = Raised THEN None ELSE a
           /\ pc' = IF a = Raised THEN "raised" ELSE "done"
    /\ UNCHANGED <<budget, state, identity_of_bot, tree, step, sampled_game,
                   node, leaf, expanded, me, won, expand_calls,
                   rollout_calls, rollout_from, bp_count, started,
                   score_args, score>>

Next == Select \/ Expand \/ Rollout \/ Backprop \/ Decide

Spec == Init /\ [][Next]_vars

\* --------------------------------------------------- the outcome function
\* The arguments outcome is applied to: the identity me of the rollout, an
\* owned_boxes mapping and a points_values result.
OutcomeArgs ==
    [me : {1, 2}, owned_boxes : [Cells -> 0..2],
     points_values : {NoPoints} \cup ((0..1) \X (0..1))]

InitOutcome ==
    /\ score_args \in OutcomeArgs
    /\ score = None
    /\ pc = "outcome"
    /\ budget = "count"
    /\ state = EmptyBoard
    /\ identity_of_bot = score_args.me
    /\ tree = <<MCTSNode(None, None, <<>>)>>
    /\ step = 0
    /\ sampled_game = None
    /\ node = None
    /\ leaf = None
    /\ expanded = None
    /\ me = score_args.me
    /\ won = FALSE
    /\ expand_calls = <<>>
    /\ rollout_calls = <<>>
    /\ rollout_from = None
    /\ bp_count = 0
    /\ started = <<[visits |-> 0, wins |-> 0]>>
    /\ action = None

\* outcome(owned_boxes, game_points) with me as the rollout set it.
Outcome ==
    /\ pc = "outcome"
    /\ score' = outcome(me, score_args.owned_boxes, score_args.points_values)
    /\ pc' = "scored"
    /\ UNCHANGED <<budget, state, identity_of_bot, tree, step, sampled_game,
                   node, leaf, expanded, me, won, expand_calls,
                   rollout_calls, rollout_from, bp_count, started, action,
                   score_args>>

NextOutcome == Outcome

SpecOutcome == InitOutcome /\ [][NextOutcome]_vars

\* ---------------------------------------------------------------- claims
Nodes == 1..Len(tree)

RECURSIVE Replay(_, _, _)
\* The state reached from s by the parent_action of every node on the path
\* from the root to n.
Replay(t, n, s) ==
    IF t[n].parent = None THEN s
    ELSE next_state(Replay(t, t[n].parent, s), t[n].parent_action)

RECURSIVE Chain(_, _)
\* The nodes of the parent chain from n up to the root, both included.
Chain(t, n) ==
    IF t[n].parent = None THEN {n} ELSE {n} \cup Chain(t, t[n].parent)

\* C1: the sampled state handed on after Selection is the root state with
\* the parent_action of every node on the path to the selected node applied.
C1_SampledStateFollowsPath ==
    (pc = "expand") => (sampled_game = Replay(tree, leaf, state))

\* C2: every iteration calls backpropagate once, starting at the node
\* Expansion created or, without an expansion, at the node Selection returned.
C2_BackpropStartsAtExpandedOrFrontier ==
    /\ (pc = "backprop") =>
          (node = IF expanded # None THEN expanded ELSE leaf)
    /\ (pc = "loop") => (bp_count = step)

\* C3: think on a terminal state does not return a value.
C3_TerminalRootRaises ==
    (legal_actions(state) = <<>>) => (pc # "done")

WinsVisitsOrdered ==
    \A n \in Nodes :
        /\ tree[n].wins <= tree[n].visits
        /\ (tree[n].parent # None) =>
              (tree[n].visits <= tree[tree[n].parent].visits)

CountsNeverDecrease ==
    \A n \in Nodes :
        /\ n <= Len(tree')
        /\ tree'[n].wins >= tree[n].wins
        /\ tree'[n].visits >= tree[n].visits

\* C4: wins <= visits on every node, visits of a node <= visits of its
\* parent, and no step lowers the wins or the visits of a node.
C4_CountsOrderedAndMonotone ==
    [](WinsVisitsOrdered) /\ [][CountsNeverDecrease]_vars

C4_Witness ==
    /\ pc = "loop"
    /\ \E n \in Nodes :
          /\ tree[n].parent # None
          /\ tree[n].wins >= 1
          /\ tree[n].wins < tree[n].visits
          /\ tree[n].visits < tree[tree[n].parent].visits

\* C5: the iteration-budget engine runs num_nodes iterations, each one with
\* one backpropagation, so the visits of the root count the iterations made
\* and are num_nodes when the action is returned.
C5_RootVisitsCountIterations ==
    (budget = "count") =>
        /\ pc # "raised"
        /\ step <= num_nodes
        /\ bp_count = step
        /\ tree[1].visits = step
        /\ (pc = "done") => (step = num_nodes /\ tree[1].visits = num_nodes)

C5_Witness ==
    /\ budget = "count"
    /\ pc = "done"
    /\ tree[1].visits = num_nodes
    /\ Len(tree) > 2

ChildrenOf(n, a) ==
    {i \in 1..Len(tree[n].child_nodes) : tree[n].child_nodes[i][1] = a}

\* C6: on every node the children's actions and the untried actions are
\* disjoint and no action has two children; on the root they make up the
\* legal actions of the root state, and after as many iterations as there
\* are legal actions each of them has its one child.
C6_ExpansionExhaustsRoot ==
    /\ \A n \in Nodes :
          /\ Keys(tree[n].child_nodes) \cap Range(tree[n].untried_actions) = {}
          /\ \A a \in Keys(tree[n].child_nodes) :
                Cardinality(ChildrenOf(n, a)) = 1
    /\ Keys(tree[1].child_nodes) \cup Range(tree[1].untried_actions)
          = Range(legal_actions(state))
    /\ (step >= Len(legal_actions(state))) =>
          /\ tree[1].untried_actions = <<>>
          /\ \A a \in Range(legal_actions(state)) :
                Cardinality(ChildrenOf(1, a)) = 1

C6_Witness ==
    /\ Len(legal_actions(state)) >= 2
    /\ step = Len(legal_actions(state))
    /\ pc = "loop"
    /\ tree[1].untried_actions = <<>>
    /\ Len(tree[1].child_nodes) = Len(legal_actions(state))

\* C7: the rollout of the iteration-budget engine returns an ended state.
C7_HeuristicRolloutEnds ==
    (budget = "count" /\ pc = "backprop") => is_ended(sampled_game)

\* The calls of a rollout form one play: each action is legal in the state
\* it is applied to, and each state is the result of the call before.
RolloutIsLegalPlay ==
    /\ \A i \in 1..Len(rollout_calls) :
          /\ rollout_calls[i][2] \in Range(legal_actions(rollout_calls[i][1]))
          /\ rollout_calls[i][1] =
                IF i = 1 THEN rollout_from
                ELSE next_state(rollout_calls[i - 1][1],
                                rollout_calls[i - 1][2])
    /\ sampled_game =
          IF rollout_calls = <<>> THEN rollout_from
          ELSE next_state(rollout_calls[Len(rollout_calls)][1],
                          rollout_calls[Len(rollout_calls)][2])

\* C8: the rollout of the time-budget engine comes to an end on every state,
\* returns an ended state reached by legal actions only, and returns an
\* ended state as it is.
C8_RandomRolloutEnds ==
    /\ (budget = "time" /\ pc = "rollout") =>
          (rollout_time(sampled_game) # {})
    /\ (budget = "time" /\ pc = "backprop") =>
          /\ is_ended(sampled_game)
          /\ RolloutIsLegalPlay
          /\ is_ended(rollout_from) =>
                (sampled_game = rollout_from /\ rollout_calls = <<>>)

C8_Witness ==
    /\ budget = "time"
    /\ pc = "backprop"
    /\ Len(rollout_calls) >= 2
    /\ is_ended(sampled_game)

\* C9: backpropagate(n, won) adds one to the visits of the nodes of the
\* parent chain of n, root included, one to their wins iff won, and changes
\* nothing else of the tree.
C9_BackpropFrame ==
    [][(pc = "backprop") =>
          /\ Len(tree') = Len(tree)
          /\ 1 \in Chain(tree, node)
          /\ \A n \in Nodes :
                /\ tree'[n].visits =
                      tree[n].visits + IF n \in Chain(tree, node) THEN 1 ELSE 0
                /\ tree'[n].wins =
                      tree[n].wins
                      + IF n \in Chain(tree, node) /\ won THEN 1 ELSE 0
                /\ tree'[n].child_nodes = tree[n].child_nodes
                /\ tree'[n].untried_actions = tree[n].untried_actions
                /\ tree'[n].parent = tree[n].parent
                /\ tree'[n].parent_action = tree[n].parent_action]_vars

C9_Witness ==
    /\ pc = "loop"
    /\ bp_count >= 1
    /\ node # None
    /\ Cardinality(Chain(tree, node)) >= 3
    /\ Len(tree) > Cardinality(Chain(tree, node))
    /\ won

\* a / b > c / d
RatioGt(a, b, c, d) == a * d > c * b

\* C10: with a child under the root, think returns the action of a root
\* child of greatest wins / visits, the last such child in the order of the
\* root's children, and not None.
C10_ReturnsLastBestChild ==
    (pc = "done" /\ Len(tree[1].child_nodes) >= 1) =>
        /\ action # None
        /\ \E i \in 1..Len(tree[1].child_nodes) :
              LET b == tree[1].child_nodes[i][2]
              IN  /\ action = tree[b].parent_action
                  /\ \A j \in 1..Len(tree[1].child_nodes) :
                        LET c == tree[1].child_nodes[j][2]
                        IN  /\ ~RatioGt(tree[c].wins, tree[c].visits,
                                        tree[b].wins, tree[b].visits)
                            /\ (j > i) =>
                                  RatioGt(tree[b].wins, tree[b].visits,
                                          tree[c].wins, tree[c].visits)

C10_Witness ==
    /\ pc = "done"
    /\ Len(tree[1].child_nodes) >= 2
    /\ LET k == Len(tree[1].child_nodes)
           b == tree[1].child_nodes[k][2]
           c == tree[1].child_nodes[1][2]
       IN  /\ action = tree[b].parent_action
           /\ tree[b].wins * tree[c].visits = tree[c].wins * tree[b].visits
           /\ tree[b].wins >= 1

\* C11: on a root state with one legal action think returns that action
\* after any budget of one iteration or more.
C11_SingleActionReturned ==
    (Len(legal_actions(state)) = 1 /\ step >= 1) =>
        /\ pc # "raised"
        /\ (pc = "done") => (action = legal_actions(state)[1])

C11_Witness ==
    /\ Len(legal_actions(state)) = 1
    /\ pc = "done"
    /\ step >= 2
    /\ action = legal_actions(state)[1]
    /\ tree[tree[1].child_nodes[1][2]].wins = 0

\* C12: at every iteration boundary every node below the root has a visit,
\* and so has every node with children, so that no UCT score divides by
\* zero or takes the logarithm of zero.
C12_ScoredNodesVisited ==
    /\ pc # "raised"
    /\ (pc = "loop") =>
          \A n \in Nodes :
              /\ (tree[n].parent # None) => (tree[n].visits >= 1)
              /\ (tree[n].child_nodes # <<>>) => (tree[n].visits >= 1)

C12_Witness ==
    /\ pc = "expand"
    /\ leaf # 1
    /\ tree[leaf].parent # 1
    /\ tree[leaf].visits >= 1

\* C13: in every rollout call of the iteration-budget engine the identity me
\* of the rollout is the searching identity.
C13_RolloutIdentityIsBot ==
    (budget = "count" /\ pc = "backprop") => (me = identity_of_bot)

\* The number of cells of the owned_boxes argument that belong to id.
CellsOf(id) ==
    Cardinality({c \in Cells : score_args.owned_boxes[c] = id})

\* C14: without points_values outcome is the number of cells of me minus
\* the number of cells of the other identity, for me 1 and for me 2: +2 with
\* three cells against one, -2 with one against three.
C14_OutcomeCountsCells ==
    (pc = "scored" /\ score_args.points_values = NoPoints) =>
        /\ score = CellsOf(me) - CellsOf(3 - me)
        /\ (CellsOf(me) = 3 /\ CellsOf(3 - me) = 1) => (score = 2)
        /\ (CellsOf(me) = 1 /\ CellsOf(3 - me) = 3) => (score = -2)

C14_Witness ==
    /\ pc = "scored"
    /\ score_args.points_values = NoPoints
    /\ me = 2
    /\ CellsOf(2) = 3
    /\ CellsOf(1) = 1
    /\ score = 2

ChildIds(n) == {tree[n].child_nodes[i][2] : i \in 1..Len(tree[n].child_nodes)}

\* C15: Selection started on a node with untried actions returns that node,
\* the nodes above the selected node have no untried actions, and a node
\* with a grandchild has no untried actions.
C15_NoDescentThroughUntried ==
    /\ \A n \in Nodes :
          /\ (tree[n].untried_actions # <<>>) =>
                (traverse_nodes(tree, n, state) = n)
          /\ (\E c \in ChildIds(n) : tree[c].child_nodes # <<>>) =>
                (tree[n].untried_actions = <<>>)
    /\ (pc = "expand") =>
          \A m \in Chain(tree, leaf) \ {leaf} : tree[m].untried_actions = <<>>

C15_Witness ==
    /\ pc = "expand"
    /\ leaf # 1
    /\ tree[leaf].untried_actions # <<>>
    /\ tree[leaf].child_nodes # <<>>
    /\ traverse_nodes(tree, leaf, state) = leaf

\* C16: the node Selection returns has untried actions or has no children.
C16_SelectionStopsAtFrontier ==
    (pc = "expand") =>
        (tree[leaf].untried_actions # <<>> \/ tree[leaf].child_nodes = <<>>)

\* C17: on every node the untried actions and the children's actions make up
\* the legal actions of the root state with the path to the node replayed.
C17_ActionsMatchReplayedState ==
    \A n \in Nodes :
        Range(tree[n].untried_actions) \cup Keys(tree[n].child_nodes)
            = Range(legal_actions(Replay(tree, n, state)))

\* What one call expand_leaf(leaf, board, sampled_game) that picks a does.
ExpandsBy(a) ==
    LET c == Len(tree) + 1
    IN  /\ Len(tree') = c
        /\ tree'[c] = [parent |-> leaf, parent_action |-> a,
                       child_nodes |-> <<>>,
                       untried_actions |->
                           legal_actions(next_state(sampled_game, a)),
                       wins |-> 0, visits |-> 0]
        /\ node' = c
        /\ sampled_game' = next_state(sampled_game, a)
        /\ tree'[leaf].child_nodes = Append(tree[leaf].child_nodes, <<a, c>>)
        /\ a \notin Keys(tree[leaf].child_nodes)
        /\ Len(tree'[leaf].untried_actions)
              = Len(tree[leaf].untried_actions) - 1
        /\ Range(tree'[leaf].untried_actions)
              = Range(tree[leaf].untried_actions) \ {a}
        /\ tree'[leaf].wins = tree[leaf].wins
        /\ tree'[leaf].visits = tree[leaf].visits
        /\ tree'[leaf].parent = tree[leaf].parent
        /\ tree'[leaf].parent_action = tree[leaf].parent_action
        /\ \A n \in Nodes \ {leaf} : tree'[n] = tree[n]

\* C18: expand_leaf on a node with untried actions moves one of them to the
\* children, under a new node without visits that holds the legal actions
\* of the state after it, and returns that node and state; no other node
\* changes, and no step but this one adds a node or takes one away.
C18_ExpandFrame ==
    [][/\ (pc = "expand" /\ tree[leaf].untried_actions # <<>>) =>
             \E a \in Range(tree[leaf].untried_actions) : ExpandsBy(a)
       /\ (~(pc = "expand" /\ tree[leaf].untried_actions # <<>>)) =>
             (Len(tree') = Len(tree))]_vars

C18_Witness ==
    /\ pc = "rollout"
    /\ expanded # None
    /\ leaf # 1
    /\ Len(tree[leaf].child_nodes) >= 2
    /\ tree[expanded].untried_actions # <<>>

\* C19: every action handed to next_state, by expand_leaf and by the
\* rollout, is a legal action of the state handed with it.
C19_NextStateCallsLegal ==
    /\ \A i \in 1..Len(expand_calls) :
          expand_calls[i][2] \in Range(legal_actions(expand_calls[i][1]))
    /\ \A i \in 1..Len(rollout_calls) :
          rollout_calls[i][2] \in Range(legal_actions(rollout_calls[i][1]))

RECURSIVE SumChildren(_, _, _)
\* The sum of the field f (visits or wins) over the children of n from the
\* i-th on.
SumChildren(n, i, f) ==
    IF i > Len(tree[n].child_nodes) THEN 0
    ELSE (IF f = "visits" THEN tree[tree[n].child_nodes[i][2]].visits
                          ELSE tree[tree[n].child_nodes[i][2]].wins)
         + SumChildren(n, i + 1, f)

\* C20: at every iteration boundary the visits of a node are the visits of
\* its children plus the backpropagations started at the node, and the same
\* for the wins with the won ones; so they are never less than the
\* children's.
C20_VisitsSumOfChildren ==
    (pc = "loop") =>
        \A n \in Nodes :
            /\ tree[n].visits
                  = SumChildren(n, 1, "visits") + started[n].visits
            /\ tree[n].wins = SumChildren(n, 1, "wins") + started[n].wins
            /\ tree[n].visits >= SumChildren(n, 1, "visits")

C20_Witness ==
    /\ pc = "loop"
    /\ started[1].visits >= 1
    /\ \E n \in Nodes :
          /\ n # 1
          /\ tree[n].child_nodes # <<>>
          /\ started[n].visits = 1
          /\ tree[n].wins > SumChildren(n, 1, "wins")
          /\ SumChildren(n, 1, "wins") >= 1

====
